---- MODULE Spec2Model ----
(***************************************************************************)
(* A model of research-ralph's core: the RRD state store                   *)
(* (ralph/core/rrd_manager.py), the agent runner's results                 *)
(* (ralph/core/agent_runner.py) and the research loop                      *)
(* (ralph/core/research_loop.py).                                          *)
(*                                                                         *)
(* SpecLoop  : ResearchLoop.run() on one project, the agent being the      *)
(*             environment that rewrites rrd.json during an invocation.    *)
(* SpecSave  : RRDManager.save() step by step, with I/O faults and a       *)
(*             process crash between any two steps.                        *)
(* SpecReset : RRDManager.reset() / create_backup() as whole operations.   *)
(* SpecTarget: RRDManager.update_target_papers() and reset().              *)
(* SpecModes : ResearchLoop.run() in blocking and in live-output mode,     *)
(*             with an agent that may never exit.                          *)
(* SpecClassify : classify_error and get_retry_delay on every output.      *)
(* SpecRunner: AgentRunner.run() for each agent profile and launch         *)
(*             outcome.                                                    *)
(* SpecRuns  : run() called again on the same ResearchLoop, the result of  *)
(*             each invocation being kept.                                 *)
(* SpecStub  : run() with AgentRunner.run replaced by a double that also   *)
(*             returns failures without an error kind.                     *)
(***************************************************************************)
EXTENDS Integers, Sequences, FiniteSets, TLC

(***************************************************************************)
(* Bounds of the model.                                                    *)
(***************************************************************************)
MaxPool == 2
MaxAnalyzed == 1
MaxIterations == 2
MaxFailures == 2

VARIABLES
    \* ---- the project directory
    disk,          \* rrd.json
    temp,          \* the *.tmp file of the latest save()
    progress,      \* progress.txt
    backups,       \* rrd.backup.<suffix>.json files: suffix -> content
    clock,         \* datetime.now(), in whole seconds
    \* ---- RRDManager
    rrd,           \* self._rrd: the cached document (None before a load)
    sv,            \* the running save(): its position and locals
    op,            \* the State Store operation last called and how it ended
    calls,         \* how many reset() and create_backup() calls were made
    \* ---- ResearchLoop
    pc,            \* position inside run()
    env,           \* what validate() looks at besides rrd.json
    max_iterations,
    max_consecutive_failures,
    consecutive_failures,
    current_iteration,
    iteration,     \* run()'s loop index i
    frame,         \* _run_iteration's locals before the agent runs
    iter_result,   \* the IterationResult of the latest _run_iteration
    loop_result,   \* the LoopResult run() returned (None before)
    obs,           \* what the embedding application observed of this run
    \* ---- AgentRunner
    runner         \* one AgentRunner.run(): its inputs, position and result

dirVars == <<disk, temp, progress, backups, clock>>
mgrVars == <<rrd, sv, op, calls>>
loopVars == <<pc, env, max_iterations, max_consecutive_failures,
              consecutive_failures, current_iteration, iteration, frame,
              iter_result, loop_result, obs>>
runnerVars == <<runner>>
vars == <<dirVars, mgrVars, loopVars, runnerVars>>

None == [kind |-> "None"]

(***************************************************************************)
(* The document (ralph/models/rrd.py) and its items (models/paper.py).     *)
(***************************************************************************)
Phases == {"DISCOVERY", "ANALYSIS", "IDEATION", "COMPLETE"}

\* PaperStatus; "presented" stands for every status that is neither pending
\* nor analyzing (presented, rejected, extract_insights, insights_extracted).
PaperStatuses == {"pending", "analyzing", "presented"}

SeqsUpTo(S, n) == UNION {[1..k -> S] : k \in 0..n}

Statistics(d, a, p, r, i) ==
    [total_discovered |-> d, total_analyzed |-> a, total_presented |-> p,
     total_rejected |-> r, total_insights_extracted |-> i]

RRD(ph, pool, ins, target, st) ==
    [phase |-> ph, papers_pool |-> pool, insights |-> ins,
     target_papers |-> target, statistics |-> st]

pending_papers(d) == SelectSeq(d.papers_pool, LAMBDA p : p = "pending")

analyzing_papers(d) == SelectSeq(d.papers_pool, LAMBDA p : p = "analyzing")

pending_count(d) == Len(pending_papers(d)) + Len(analyzing_papers(d))

ZeroStatistics == Statistics(0, 0, 0, 0, 0)

(***************************************************************************)
(* Files.  A file is what a reader finds at its path: nothing, text that   *)
(* is not (yet) JSON, or a JSON object; body is the document the object    *)
(* spells out.                                                             *)
(***************************************************************************)
NullBody == RRD("DISCOVERY", <<>>, <<>>, 1, ZeroStatistics)

File(k, proj, req, body) ==
    [kind |-> k, has_project |-> proj, requirements |-> req, body |-> body]

Absent == File("absent", FALSE, "missing", NullBody)

EmptyFile == File("empty", FALSE, "missing", NullBody)

PartialFile == File("partial", FALSE, "missing", NullBody)

NotJson == File("not_json", FALSE, "missing", NullBody)

\* model_dump_json() then json.dump(): every field of the model is written.
Serialize(d) == File("json", TRUE, "present", d)

\* Requirements.target_papers: Field(ge=1); phase: Phase.
SchemaValid(d) == d.target_papers >= 1 /\ d.phase \in Phases

\* RRDManager.load(): FileNotFoundError, JSONDecodeError or pydantic's
\* ValidationError unless the file is a complete, schema-valid document.
Loadable(f) ==
    /\ f.kind = "json"
    /\ f.has_project
    /\ f.requirements = "present"
    /\ SchemaValid(f.body)

Parse(f) == f.body

\* RRDManager.validate(): the structural check, a list of error strings.
ManagerValidate(f) ==
    IF f.kind = "absent" THEN <<"RRD file not found">>
    ELSE IF f.kind # "json" THEN <<"Invalid JSON">>
    ELSE (IF f.has_project THEN <<>>
          ELSE <<"Missing required field: project">>)
      \o (IF f.requirements = "missing"
             THEN <<"Missing required field: requirements">>
          ELSE IF f.requirements = "no_target"
             THEN <<"Missing required field: requirements.target_papers">>
          ELSE <<>>)

(***************************************************************************)
(* RRDManager.save(): write to a temp file in the same directory, then     *)
(* rename it over rrd.json.  w is the part of the state save() touches:    *)
(* [disk, temp, rrd, sv].  sv.pc walks create -> write -> close ->         *)
(* replace -> returned, any failure going through the except block         *)
(* ("cleanup") to raised.                                                  *)
(***************************************************************************)
IdleSave ==
    [pc |-> "idle", temp_path |-> FALSE, data |-> Absent, prev |-> Absent,
     failed_at |-> "none", unlink_failed |-> FALSE]

World(d, t, r, s) == [disk |-> d, temp |-> t, rrd |-> r, sv |-> s]

\* lines 46-56: take the argument, refuse without a document, serialize.
SaveEnter(w, arg) ==
    LET doc == IF arg # None THEN arg ELSE w.rrd IN
    IF doc = None
    THEN [w EXCEPT !.sv = [IdleSave EXCEPT !.pc = "raised",
                                           !.failed_at = "no_rrd",
                                           !.prev = w.disk]]
    ELSE [w EXCEPT !.rrd = doc,
                   !.temp = Absent,
                   !.sv = [IdleSave EXCEPT !.pc = "create",
                                           !.data = Serialize(doc),
                                           !.prev = w.disk]]

\* ReplaceFile as a copy that is not atomic: failing, it leaves the target
\* half written.
ReplaceFileTorn(w, ok) ==
    IF ok THEN [w EXCEPT !.disk = w.temp, !.temp = Absent]
    ELSE [w EXCEPT !.disk = PartialFile]

\* line 63: Path.replace, an atomic rename: it happens or it does not.
ReplaceFile(w, ok) ==
    IF ok THEN [w EXCEPT !.disk = w.temp, !.temp = Absent] ELSE w

\* SaveExcept without the unlink: the handler only re-raises.
SaveExceptNoUnlink(w, unlink_ok) == [w EXCEPT !.sv.pc = "raised"]

\* lines 64-71: the except block.
SaveExcept(w, unlink_ok) ==
    IF w.sv.temp_path /\ w.temp.kind # "absent"
    THEN IF unlink_ok
         THEN [w EXCEPT !.temp = Absent, !.sv.pc = "raised"]
         ELSE [w EXCEPT !.sv.unlink_failed = TRUE, !.sv.pc = "raised"]
    ELSE [w EXCEPT !.sv.pc = "raised"]

\* One step of save(); ok says whether the step's system call succeeds.
SaveStep(w, ok) ==
    CASE w.sv.pc = "create" ->
            \* line 58: NamedTemporaryFile(dir=..., delete=False)
            IF ok THEN [w EXCEPT !.temp = EmptyFile, !.sv.pc = "write"]
            ELSE [w EXCEPT !.sv.failed_at = "create", !.sv.pc = "cleanup"]
      [] w.sv.pc = "write" ->
            \* lines 61-62: json.dump into the buffered file, then
            \* temp_path = Path(f.name)
            IF ok THEN [w EXCEPT !.temp = PartialFile, !.sv.temp_path = TRUE,
                                 !.sv.pc = "close"]
            ELSE [w EXCEPT !.temp = PartialFile, !.sv.failed_at = "write",
                           !.sv.pc = "cleanup"]
      [] w.sv.pc = "close" ->
            \* leaving the with block: flush and close
            IF ok THEN [w EXCEPT !.temp = w.sv.data, !.sv.pc = "replace"]
            ELSE [w EXCEPT !.sv.failed_at = "close", !.sv.pc = "cleanup"]
      [] w.sv.pc = "replace" ->
            IF ok THEN [ReplaceFile(w, ok) EXCEPT !.sv.pc = "returned"]
            ELSE [ReplaceFile(w, ok) EXCEPT !.sv.failed_at = "replace",
                                            !.sv.pc = "cleanup"]
      [] w.sv.pc = "cleanup" -> SaveExcept(w, ok)
      [] OTHER -> w

SaveSteps == {"create", "write", "close", "replace", "cleanup"}

\* The steps that fail in one call of save(): none, or one step and
\* possibly the unlink of the except block with it.
FaultPlans ==
    {{}, {"create"}, {"write"}, {"close"}, {"replace"},
     {"close", "cleanup"}, {"replace", "cleanup"}}

RECURSIVE RunSave(_, _)
\* save() from entry to its return or raise, the steps in faults failing.
RunSave(w, faults) ==
    IF w.sv.pc \in SaveSteps
    THEN RunSave(SaveStep(w, w.sv.pc \notin faults), faults)
    ELSE w

(***************************************************************************)
(* The agent runner's results (ralph/core/agent_runner.py).                *)
(***************************************************************************)
ErrorTypes ==
    {"rate_limit", "forbidden", "bot_challenge", "timeout", "network",
     "unknown"}

AgentResult(ok, code, et, signal) ==
    [success |-> ok, exit_code |-> code, error_type |-> et,
     is_complete |-> signal]

\* get_retry_delay that retries after a bot challenge.
get_retry_delay_bot_retries(error_type) ==
    IF error_type = "forbidden" THEN [delay |-> 0, should_retry |-> FALSE]
    ELSE IF error_type = "rate_limit"
        THEN [delay |-> 30, should_retry |-> TRUE]
    ELSE IF error_type \in {"timeout", "network"}
        THEN [delay |-> 2, should_retry |-> TRUE]
    ELSE [delay |-> 5, should_retry |-> TRUE]

\* get_retry_delay: (delay_seconds, should_retry)
get_retry_delay(error_type) ==
    IF error_type = "forbidden" THEN [delay |-> 0, should_retry |-> FALSE]
    ELSE IF error_type = "bot_challenge"
        THEN [delay |-> 0, should_retry |-> FALSE]
    ELSE IF error_type = "rate_limit"
        THEN [delay |-> 30, should_retry |-> TRUE]
    ELSE IF error_type \in {"timeout", "network"}
        THEN [delay |-> 2, should_retry |-> TRUE]
    ELSE [delay |-> 5, should_retry |-> TRUE]

\* The substrings classify_error looks for.
Substrings ==
    {"403", "forbidden", "429", "too many requests", "rate", "limit",
     "bot", "challenge", "captcha", "blocked", "timeout", "timed out",
     "network", "connection", "dns"}

\* The substrings made of digits only.
Digits == {"403", "429"}

\* An agent's output, as far as classify_error can tell: words are the
\* substrings it contains when case is ignored, and shout says that its
\* letters are in upper case.
Output(words, shout) == [words |-> words, shout |-> shout]

\* w in output: the comparison is case-sensitive.
In(w, output) ==
    w \in output.words /\ (w \in Digits \/ ~output.shout)

\* output.lower()
Lower(output) == Output(output.words, FALSE)

\* classify_error looking for rate limits before 403s.
classify_error_rate_first(output) ==
    LET output_lower == Lower(output) IN
    IF \/ In("429", output)
       \/ In("too many requests", output_lower)
       \/ In("rate", output_lower) /\ In("limit", output_lower)
    THEN "rate_limit"
    ELSE IF In("403", output) \/ In("forbidden", output_lower)
    THEN "forbidden"
    ELSE IF \E word \in {"bot", "challenge", "captcha", "blocked"} :
               In(word, output_lower)
    THEN "bot_challenge"
    ELSE IF In("timeout", output_lower) \/ In("timed out", output_lower)
    THEN "timeout"
    ELSE IF \E word \in {"network", "connection", "dns"} :
               In(word, output_lower)
    THEN "network"
    ELSE "unknown"

\* classify_error, lines 65-80; "and" binds tighter than "or" in line 71.
classify_error(output) ==
    LET output_lower == Lower(output) IN
    IF In("403", output) \/ In("forbidden", output_lower)
    THEN "forbidden"
    ELSE IF \/ In("429", output)
            \/ In("too many requests", output_lower)
            \/ In("rate", output_lower) /\ In("limit", output_lower)
    THEN "rate_limit"
    ELSE IF \E word \in {"bot", "challenge", "captcha", "blocked"} :
               In(word, output_lower)
    THEN "bot_challenge"
    ELSE IF In("timeout", output_lower) \/ In("timed out", output_lower)
    THEN "timeout"
    ELSE IF \E word \in {"network", "connection", "dns"} :
               In(word, output_lower)
    THEN "network"
    ELSE "unknown"

\* What AgentRunner.run() can return: the prompt is looked up in
\* script_dir only; a process that exits gives success = (exit code = 0)
\* and, failing, the class of its output; a launch timeout gives 124.
RunnerResults(e) ==
    IF e.prompt_at # "script_dir"
    THEN {AgentResult(FALSE, 1, "missing_prompt", FALSE)}
    ELSE {AgentResult(TRUE, 0, "none", sig) : sig \in BOOLEAN}
         \cup {AgentResult(FALSE, 1, et, FALSE) : et \in ErrorTypes}
         \cup {AgentResult(FALSE, 124, "timeout", FALSE)}

(***************************************************************************)
(* The agent as the document's writer: what one invocation may leave in    *)
(* rrd.json, one unit of work at most.  It never touches requirements,     *)
(* and counters only grow.                                                 *)
(***************************************************************************)
NextPhase(ph) ==
    CASE ph = "DISCOVERY" -> "ANALYSIS"
      [] ph = "ANALYSIS" -> "IDEATION"
      [] OTHER -> "COMPLETE"

\* The first paper that is still pending or analyzing, 0 if none.
FirstOpen(pool) ==
    IF \E k \in 1..Len(pool) : pool[k] # "presented"
    THEN CHOOSE k \in 1..Len(pool) :
            /\ pool[k] # "presented"
            /\ \A j \in 1..(k - 1) : pool[j] = "presented"
    ELSE 0

AgentWrites(d) ==
    LET pool == d.papers_pool
        k == FirstOpen(pool)
    IN  {d, [d EXCEPT !.phase = NextPhase(d.phase)]}
        \cup (IF Len(pool) < MaxPool
              THEN {[d EXCEPT !.papers_pool = Append(pool, "pending")]}
              ELSE {})
        \cup (IF Len(pool) > 0
              THEN {[d EXCEPT !.papers_pool = SubSeq(pool, 1, Len(pool) - 1)]}
              ELSE {})
        \cup (IF k > 0 /\ pool[k] = "pending"
              THEN {[d EXCEPT !.papers_pool[k] = "analyzing"]}
              ELSE {})
        \cup (IF k > 0 /\ pool[k] = "analyzing"
              THEN {[d EXCEPT !.papers_pool[k] = "presented",
                              !.statistics.total_analyzed =
                                  IF @ < MaxAnalyzed THEN @ + 1 ELSE @]}
              ELSE {})

(***************************************************************************)
(* ResearchLoop (ralph/core/research_loop.py).                             *)
(***************************************************************************)
Message(k, n, errs) == [kind |-> k, n |-> n, errors |-> errs]

NoMessage == Message("none", 0, <<>>)

IterationResult(it, ok, ar, ph, delta, cont, complete, msg) ==
    [iteration |-> it, success |-> ok, agent_result |-> ar, phase |-> ph,
     papers_delta |-> delta, should_continue |-> cont,
     is_complete |-> complete, error_message |-> msg]

LoopResult(completed, n, d, msg) ==
    [completed |-> completed, iterations_run |-> n, final_phase |-> d.phase,
     total_analyzed |-> d.statistics.total_analyzed,
     total_presented |-> d.statistics.total_presented,
     total_insights |-> d.statistics.total_insights_extracted,
     error_message |-> msg]

\* ResearchLoop.validate(): the document's structure, the agent binary,
\* prompt.md beside the project or at the repository root.
LoopValidate(f, e) ==
    ManagerValidate(f)
    \o (IF e.agent_available THEN <<>> ELSE <<"Agent not found">>)
    \o (IF e.prompt_at = "nowhere" THEN <<"prompt.md not found">> ELSE <<>>)

\* NeedsCorrection with <= in place of <.
NeedsCorrectionInclusive(d) ==
    d.phase = "ANALYSIS" /\ Len(d.papers_pool) <= d.target_papers

\* lines 186-189: ANALYSIS needs enough papers.
NeedsCorrection(d) ==
    d.phase = "ANALYSIS" /\ Len(d.papers_pool) < d.target_papers

\* CompletionCheck trusting the agent: the item statuses are not looked at.
CompletionCheckTrusting(ar, d) ==
    \/ ar.is_complete /\ d.statistics.total_analyzed > 0
    \/ d.phase = "COMPLETE" /\ d.statistics.total_analyzed > 0

\* CompletionCheck without the fallback on phase COMPLETE.
CompletionCheckSignalOnly(ar, d) ==
    /\ ar.is_complete
    /\ pending_count(d) = 0
    /\ d.statistics.total_analyzed > 0

\* lines 253-265: the completion signal, or phase COMPLETE, and in both
\* cases nothing pending or analyzing and something analyzed.
CompletionCheck(ar, d) ==
    \/ /\ ar.is_complete
       /\ pending_count(d) = 0
       /\ d.statistics.total_analyzed > 0
    \/ /\ d.phase = "COMPLETE"
       /\ pending_count(d) = 0
       /\ d.statistics.total_analyzed > 0

\* line 219: the kind the loop gives a failed result; a result without one
\* is Unknown.  ErrorType(...) raises ValueError on a string that is no
\* member, which leaves the string as it is here.
LoopErrorType(ar) ==
    IF ar.error_type = "none" THEN "unknown" ELSE ar.error_type

\* FailureResult that goes on after every kind of failure.
FailureResultAnyKind(it, ar, ph, failures, threshold) ==
    LET cont == failures < threshold
    IN  IF failures >= threshold
        THEN IterationResult(it, FALSE, ar, ph, 0, FALSE, FALSE,
                             Message("too_many_failures", failures, <<>>))
        ELSE IterationResult(it, FALSE, ar, ph, 0, cont, FALSE,
                             Message("agent_error", 0, <<LoopErrorType(ar)>>))

\* FailureResult with the threshold compared by > instead of >=.
FailureResultLate(it, ar, ph, failures, threshold) ==
    LET policy == get_retry_delay(LoopErrorType(ar))
        cont == policy.should_retry /\ failures <= threshold
    IN  IF failures > threshold
        THEN IterationResult(it, FALSE, ar, ph, 0, FALSE, FALSE,
                             Message("too_many_failures", failures, <<>>))
        ELSE IterationResult(it, FALSE, ar, ph, 0, cont, FALSE,
                             Message("agent_error", 0, <<LoopErrorType(ar)>>))

\* lines 217-242: the failure branch, failures being the counter after its
\* increment.
FailureResult(it, ar, ph, failures, threshold) ==
    LET policy == get_retry_delay(LoopErrorType(ar))
        cont == policy.should_retry /\ failures < threshold
    IN  IF failures >= threshold
        THEN IterationResult(it, FALSE, ar, ph, 0, FALSE, FALSE,
                             Message("too_many_failures", failures, <<>>))
        ELSE IterationResult(it, FALSE, ar, ph, 0, cont, FALSE,
                             Message("agent_error", 0, <<LoopErrorType(ar)>>))

\* lines 244-284: the success branch, d being the reloaded document.
SuccessResult(it, ar, d, analyzed_before) ==
    LET is_complete == CompletionCheck(ar, d)
    IN  IterationResult(it, TRUE, ar, d.phase,
                        d.statistics.total_analyzed - analyzed_before,
                        ~is_complete, is_complete, NoMessage)

\* FailuresAfter without the reset a success makes.
FailuresAfterNoReset(ok, failures) ==
    IF ok THEN failures ELSE failures + 1

\* lines 218 and 245: self.consecutive_failures after an invocation.
FailuresAfter(ok, failures) ==
    IF ok THEN 0 ELSE failures + 1

\* lines 186-197: what an iteration does, in order, before the agent is
\* launched: the corrected phase is saved, then on_iteration_start.
BeginEvents(corrected) ==
    IF corrected THEN <<"save", "start">> ELSE <<"start">>

\* FailureEvents with the sleep ahead of on_iteration_end.
FailureEventsSleepFirst(ar) ==
    LET policy == get_retry_delay(LoopErrorType(ar))
    IN  <<"invoke">>
        \o (IF policy.should_retry /\ policy.delay > 0
            THEN <<"sleep">> ELSE <<>>)
        \o <<"end">>

\* lines 214-236: the agent is invoked and fails; on_iteration_end, then
\* time.sleep(delay) if should_retry and delay > 0.
FailureEvents(ar) ==
    LET policy == get_retry_delay(LoopErrorType(ar))
    IN  <<"invoke", "end">>
        \o (IF policy.should_retry /\ policy.delay > 0
            THEN <<"sleep">> ELSE <<>>)

\* lines 214 and 277-282: the agent is invoked and succeeds;
\* on_iteration_end, then time.sleep(2) unless the research is complete.
SuccessEvents(res) ==
    <<"invoke", "end">> \o (IF ~res.is_complete THEN <<"sleep">> ELSE <<>>)

\* LoadDocument as the manager's rrd property does it (rrd_manager.py
\* 73-78): the file is read only if nothing is cached.
LoadDocumentCached(f, cache) ==
    IF cache = None THEN Parse(f) ELSE cache

\* line 181: rrd = self.rrd_manager.load() reads rrd.json anew, whatever
\* self._rrd (cache) holds.
LoadDocument(f, cache) == Parse(f)

\* InRange with the range one too long: range(1, self.max_iterations + 2).
InRangeOneMore(n, cap) == n >= 1 /\ n <= cap + 1

\* line 150: for i in range(1, self.max_iterations + 1)
InRange(n, cap) == n >= 1 /\ n <= cap

(***************************************************************************)
(* SpecLoop: one ResearchLoop on one project directory.  A state is taken  *)
(* where run() starts, at every launch of the agent, and where run()       *)
(* returns or raises.                                                      *)
(***************************************************************************)
TargetValues == {1, 2}

LoopDocs ==
    {RRD(ph, pool, <<>>, t, Statistics(0, a, 0, 0, 0)) :
        ph \in Phases, pool \in SeqsUpTo(PaperStatuses, MaxPool),
        t \in TargetValues, a \in 0..MaxAnalyzed}

\* Files load() or validate() refuse.  The last one passes validate() and
\* fails load(): target_papers = 0 violates ge=1.
InvalidFiles ==
    {Absent, NotJson,
     File("json", FALSE, "present", NullBody),
     File("json", TRUE, "missing", NullBody),
     File("json", TRUE, "no_target", NullBody),
     File("json", FALSE, "missing", NullBody),
     File("json", TRUE, "present", [NullBody EXCEPT !.target_papers = 0])}

\* The locals of _run_iteration at the agent's launch; loaded is the
\* document as line 181 loaded it, before any correction.
NoFrame == [phase |-> "none", analyzed_before |-> 0, loaded |-> None]

\* line 91: the default suffix, datetime.now() to the second.
Timestamp(c) == <<"timestamp", c>>

CustomSuffix == <<"custom", 0>>

NoSuffix == <<"none", 0>>

\* The last store operation: its name, how it ended, the suffix of the
\* backup it made, what rrd.json held when it was called, its arguments.
NoOp == [name |-> "none", outcome |-> "none", suffix |-> NoSuffix,
         before |-> Absent, args |-> <<>>]

NoBackups == [s \in {} |-> Absent]

\* No AgentRunner.run() is being looked at.
NoRun == [pc |-> "none"]

\* What an observer of one run() has seen: counts, the phase given to
\* on_iteration_start, the last completion signal, the events of the
\* iteration under way in their order, what the last invocation left in
\* rrd.json, and the failed invocations since the last successful one.
NoObs ==
    [invocations |-> 0, callbacks |-> 0, saves |-> 0,
     leading_failures |-> 0, start_phase |-> "none", last_signal |-> FALSE,
     events |-> <<>>, agent_left |-> None, streak |-> 0]

InitLoop ==
    /\ disk \in InvalidFiles \cup {Serialize(d) : d \in LoopDocs}
    /\ temp = Absent
    /\ progress = "absent"
    /\ backups = NoBackups
    /\ clock = 0
    /\ rrd = None
    /\ sv = IdleSave
    /\ op = NoOp
    /\ calls = 0
    /\ pc = "idle"
    /\ env \in [agent_available : BOOLEAN,
                prompt_at : {"script_dir", "repo_root", "nowhere"}]
    /\ max_iterations \in 0..MaxIterations
    /\ max_consecutive_failures \in 1..MaxFailures
    /\ consecutive_failures = 0
    /\ current_iteration = 0
    /\ iteration = 0
    /\ frame = NoFrame
    /\ iter_result = None
    /\ loop_result = None
    /\ obs = NoObs
    /\ runner = NoRun

\* lines 166-176: the for loop is exhausted; f is rrd.json.
MaxIterationsReturn(f, cache) ==
    IF Loadable(f)
    THEN /\ pc' = "done"
         /\ rrd' = Parse(f)
         /\ loop_result' = LoopResult(FALSE, max_iterations, Parse(f),
                              Message("max_iterations", max_iterations, <<>>))
    ELSE /\ pc' = "raised"
         /\ rrd' = cache
         /\ UNCHANGED loop_result

\* CorrectionSave forgotten: the phase is corrected in memory only.
CorrectionSaveSkipped(f, t, fixed, plan) ==
    [World(f, t, fixed, IdleSave) EXCEPT !.sv.pc = "returned"]

\* line 192: self.rrd_manager.save() of the corrected document; f and t are
\* rrd.json and the temp file before it.
CorrectionSave(f, t, fixed, plan) ==
    RunSave(SaveEnter(World(f, t, fixed, IdleSave), None), plan)

\* _run_iteration n up to the launch of the agent, lines 151 and 180-197:
\* load, correct the phase and save it, call on_iteration_start.  f is
\* rrd.json, cache is self._rrd and o is obs as the iteration starts.
BeginIteration(n, f, cache, o) ==
    /\ iteration' = n
    /\ current_iteration' = n
    /\ UNCHANGED loop_result
    /\ IF ~Loadable(f)
       THEN /\ pc' = "raised"
            /\ disk' = f
            /\ rrd' = cache
            /\ obs' = [o EXCEPT !.events = <<>>]
            /\ UNCHANGED <<temp, sv, frame>>
       ELSE LET loaded == LoadDocument(f, cache) IN
            IF NeedsCorrection(loaded)
            THEN \E plan \in FaultPlans :
                   LET fixed == [loaded EXCEPT !.phase = "DISCOVERY"]
                       w == CorrectionSave(f, temp, fixed, plan)
                   IN  /\ disk' = w.disk
                       /\ temp' = w.temp
                       /\ rrd' = w.rrd
                       /\ IF w.sv.pc = "raised"
                          THEN /\ pc' = "raised"
                               /\ sv' = w.sv
                               /\ obs' = [o EXCEPT !.saves = @ + 1,
                                                   !.events = <<>>]
                               /\ UNCHANGED frame
                          ELSE /\ pc' = "invoke"
                               /\ sv' = IdleSave
                               /\ frame' =
                                    [phase |-> "DISCOVERY",
                                     analyzed_before |->
                                        loaded.statistics.total_analyzed,
                                     loaded |-> loaded]
                               /\ obs' = [o EXCEPT
                                            !.saves = @ + 1,
                                            !.callbacks = @ + 1,
                                            !.start_phase = "DISCOVERY",
                                            !.events = BeginEvents(TRUE)]
            ELSE /\ pc' = "invoke"
                 /\ disk' = f
                 /\ rrd' = loaded
                 /\ frame' = [phase |-> loaded.phase,
                              analyzed_before |->
                                 loaded.statistics.total_analyzed,
                              loaded |-> loaded]
                 /\ obs' = [o EXCEPT !.callbacks = @ + 1,
                                     !.start_phase = loaded.phase,
                                     !.events = BeginEvents(FALSE)]
                 /\ UNCHANGED <<temp, sv>>

\* ValidationFailure reporting the first error only.
ValidationFailureFirstOnly(errors) ==
    [completed |-> FALSE, iterations_run |-> 0, final_phase |-> "DISCOVERY",
     total_analyzed |-> 0, total_presented |-> 0, total_insights |-> 0,
     error_message |-> Message("validation", 0, <<errors[1]>>)]

\* lines 133-141: the LoopResult of a failed validation.
ValidationFailure(errors) ==
    [completed |-> FALSE, iterations_run |-> 0, final_phase |-> "DISCOVERY",
     total_analyzed |-> 0, total_presented |-> 0, total_insights |-> 0,
     error_message |-> Message("validation", 0, errors)]

\* A call of run(), lines 130-150 and the first iteration up to the
\* agent's launch: validate, ensure the progress file, enter the loop.
\* o is what the observer of this call has seen so far.  run() assigns
\* neither self.consecutive_failures nor self.current_iteration before the
\* loop.
RunCall(o) ==
    /\ LET errors == LoopValidate(disk, env) IN
       IF errors # <<>>
       THEN /\ pc' = "done"
            /\ loop_result' = ValidationFailure(errors)
            /\ obs' = o
            /\ UNCHANGED <<disk, temp, progress, rrd, sv, frame,
                           iteration, current_iteration>>
       ELSE /\ progress' = IF progress = "absent" THEN "header" ELSE progress
            /\ IF InRange(1, max_iterations)
               THEN BeginIteration(1, disk, rrd, o)
               ELSE /\ MaxIterationsReturn(disk, rrd)
                    /\ obs' = o
                    /\ UNCHANGED <<disk, temp, sv, frame, iteration,
                                   current_iteration>>
    /\ UNCHANGED <<backups, clock, op, env, max_iterations,
                   max_consecutive_failures, consecutive_failures>>

\* The first run() on a new ResearchLoop.
Run ==
    /\ pc = "idle"
    /\ RunCall(obs)
    /\ UNCHANGED <<calls, runner, iter_result>>

\* run(), lines 152-176, once _run_iteration has returned res: return, or
\* go on with the next iteration up to the agent's launch.  f is rrd.json
\* as the agent left it.
AfterIteration(res, f, cache, o) ==
    IF ~res.should_continue
    THEN /\ pc' = "done"
         /\ disk' = f
         /\ rrd' = Parse(f)
         /\ obs' = o
         /\ iter_result' = res
         /\ loop_result' = LoopResult(res.is_complete, iteration, Parse(f),
                                      res.error_message)
         /\ UNCHANGED <<temp, sv, frame, iteration, current_iteration>>
    ELSE IF InRange(iteration + 1, max_iterations)
    THEN /\ iter_result' = None
         /\ BeginIteration(iteration + 1, f, cache, o)
    ELSE /\ MaxIterationsReturn(f, cache)
         /\ disk' = f
         /\ obs' = o
         /\ iter_result' = res
         /\ UNCHANGED <<temp, sv, frame, iteration, current_iteration>>

\* The kinds the claims call retryable: RateLimit, Timeout, Network, Unknown.
Retryable(et) == et \in {"rate_limit", "timeout", "network", "unknown"}

\* _run_iteration from line 217 on and run()'s handling of its result:
\* the agent has run and left written in rrd.json, ar is the AgentResult
\* the loop holds; the result is classified and both callbacks' worth of
\* bookkeeping is done.
HandleResult(ar, written) ==
    IF ~ar.success
    THEN /\ consecutive_failures' = FailuresAfter(FALSE, consecutive_failures)
         /\ IF LoopErrorType(ar) \notin ErrorTypes
            THEN \* ErrorType("missing_prompt") raises ValueError
                 /\ pc' = "raised"
                 /\ disk' = Serialize(written)
                 /\ obs' = [obs EXCEPT !.invocations = @ + 1,
                                       !.last_signal = FALSE,
                                       !.events = @ \o <<"invoke">>,
                                       !.agent_left = written,
                                       !.streak = @ + 1]
                 /\ UNCHANGED <<temp, rrd, sv, frame, iteration,
                                current_iteration, iter_result,
                                loop_result>>
            ELSE AfterIteration(
                   FailureResult(iteration, ar, frame.phase,
                                 FailuresAfter(FALSE, consecutive_failures),
                                 max_consecutive_failures),
                   Serialize(written), rrd,
                   [obs EXCEPT
                      !.invocations = @ + 1,
                      !.callbacks = @ + 1,
                      !.last_signal = FALSE,
                      !.leading_failures =
                         IF /\ @ = obs.invocations
                            /\ Retryable(ar.error_type)
                         THEN @ + 1 ELSE @,
                      !.events = @ \o FailureEvents(ar),
                      !.agent_left = written,
                      !.streak = @ + 1])
    ELSE LET res == SuccessResult(iteration, ar, written,
                                  frame.analyzed_before)
         IN  /\ consecutive_failures' =
                    FailuresAfter(TRUE, consecutive_failures)
             /\ AfterIteration(
                   res, Serialize(written), written,
                   [obs EXCEPT !.invocations = @ + 1, !.callbacks = @ + 1,
                               !.last_signal = ar.is_complete,
                               !.events = @ \o SuccessEvents(res),
                               !.agent_left = written,
                               !.streak = 0])

\* What the agent leaves in rrd.json while run() gives ar: nothing new
\* when no process was started.
WrittenBy(ar, f) ==
    IF ar.error_type = "missing_prompt" THEN {Parse(f)}
    ELSE AgentWrites(Parse(f))

\* _run_iteration from the agent's launch on, lines 199-284, in blocking
\* mode (line 214): the agent runs (and rewrites rrd.json) and the loop
\* handles the AgentResult run() returns.
Invoke ==
    /\ pc = "invoke"
    /\ \E ar \in RunnerResults(env) :
       \E written \in WrittenBy(ar, disk) : HandleResult(ar, written)
    /\ UNCHANGED <<progress, backups, clock, op, calls, runner, env,
                   max_iterations, max_consecutive_failures>>

NextLoop == Run \/ Invoke

SpecLoop == InitLoop /\ [][NextLoop]_vars

(***************************************************************************)
(* SpecSave: RRDManager.save() one system call at a time.  Each step may   *)
(* fail with OSError, and the process may die between any two steps.       *)
(***************************************************************************)
SaveDocs ==
    {RRD(ph, pool, <<>>, t, ZeroStatistics) :
        ph \in Phases, pool \in {<<>>, <<"pending">>}, t \in TargetValues}

InitSave ==
    /\ disk \in {Absent} \cup {Serialize(d) : d \in SaveDocs}
    /\ temp = Absent
    /\ progress = "absent"
    /\ backups = NoBackups
    /\ clock = 0
    /\ rrd \in {None} \cup SaveDocs
    /\ sv = IdleSave
    /\ op = NoOp
    /\ calls = 0
    /\ pc = "store"
    /\ env = [agent_available |-> TRUE, prompt_at |-> "script_dir"]
    /\ max_iterations = 0
    /\ max_consecutive_failures = 1
    /\ consecutive_failures = 0
    /\ current_iteration = 0
    /\ iteration = 0
    /\ frame = NoFrame
    /\ iter_result = None
    /\ loop_result = None
    /\ obs = NoObs
    /\ runner = NoRun

\* save(rrd) is called, with a document or without one.
SaveCall ==
    /\ op.outcome # "crashed"
    /\ sv.pc \in {"idle", "returned", "raised"}
    /\ \E arg \in {None} \cup SaveDocs :
         LET w == SaveEnter(World(disk, temp, rrd, sv), arg)
         IN  /\ disk' = w.disk
             /\ temp' = w.temp
             /\ rrd' = w.rrd
             /\ sv' = w.sv
             /\ op' = [NoOp EXCEPT !.name = "save", !.outcome = "running",
                                   !.before = disk]
    /\ UNCHANGED <<calls, progress, backups, clock, loopVars,
                   runnerVars>>

\* The next system call of the running save() succeeds or fails.
SaveDo ==
    /\ op.outcome # "crashed"
    /\ sv.pc \in SaveSteps
    /\ \E ok \in BOOLEAN :
         LET w == SaveStep(World(disk, temp, rrd, sv), ok)
         IN  /\ disk' = w.disk
             /\ temp' = w.temp
             /\ rrd' = w.rrd
             /\ sv' = w.sv
    /\ UNCHANGED <<op, calls, progress, backups, clock, loopVars,
                   runnerVars>>

\* The process dies in the middle of save(): the files stay as they are.
Crash ==
    /\ op.outcome # "crashed"
    /\ sv.pc \in SaveSteps
    /\ op' = [op EXCEPT !.outcome = "crashed"]
    /\ UNCHANGED <<dirVars, rrd, sv, calls, loopVars,
                   runnerVars>>

NextSave == SaveCall \/ SaveDo \/ Crash

SpecSave == InitSave /\ [][NextSave]_vars

(***************************************************************************)
(* SpecReset: RRDManager.reset() and create_backup(), each as one          *)
(* operation, with the clock that names the backups.                       *)
(***************************************************************************)
MaxClock == 1

MaxCalls == 2

\* lines 93-101: copy rrd.json, then progress.txt if there is one.  A
\* backup file of the same name is overwritten.
create_backup(d, p, b, suffix, faults) ==
    LET old == IF suffix \in DOMAIN b THEN b[suffix].progress ELSE "absent"
        b1  == [s \in DOMAIN b \cup {suffix} |->
                  IF s = suffix THEN [rrd |-> d, progress |-> old]
                  ELSE b[s]]
        b2  == [b1 EXCEPT ![suffix].progress = p]
    IN  IF d.kind = "absent" \/ "copy" \in faults
        THEN [backups |-> b, raised |-> TRUE]
        ELSE IF p = "absent" THEN [backups |-> b1, raised |-> FALSE]
        ELSE IF "copy_progress" \in faults
             THEN [backups |-> b1, raised |-> TRUE]
        ELSE [backups |-> b2, raised |-> FALSE]

\* ResetDoc that forgets the insights.
ResetDocKeepsInsights(d) ==
    [d EXCEPT !.phase = "DISCOVERY", !.papers_pool = <<>>,
              !.statistics = ZeroStatistics]

\* lines 115-122: what reset() assigns to the loaded document.
ResetDoc(d) ==
    [d EXCEPT !.phase = "DISCOVERY", !.papers_pool = <<>>,
              !.insights = <<>>, !.statistics = ZeroStatistics]

ResetFaultPlans ==
    {{}, {"copy"}, {"copy_progress"}, {"write"}, {"replace"}, {"progress"}}

ResetStatistics ==
    {ZeroStatistics, Statistics(1, 1, 1, 0, 1), Statistics(1, 1, 0, 1, 0)}

ResetDocs ==
    {RRD(ph, pool, ins, t, st) :
        ph \in Phases,
        pool \in {<<>>, <<"pending", "presented">>},
        ins \in {<<>>, <<"insight">>},
        t \in TargetValues,
        st \in ResetStatistics}

InitReset ==
    /\ disk \in InvalidFiles \cup {Serialize(d) : d \in ResetDocs}
    /\ temp = Absent
    /\ progress \in {"absent", "log"}
    /\ backups = NoBackups
    /\ clock = 0
    /\ rrd = None
    /\ sv = IdleSave
    /\ op = NoOp
    /\ calls = 0
    /\ pc = "store"
    /\ env = [agent_available |-> TRUE, prompt_at |-> "script_dir"]
    /\ max_iterations = 0
    /\ max_consecutive_failures = 1
    /\ consecutive_failures = 0
    /\ current_iteration = 0
    /\ iteration = 0
    /\ frame = NoFrame
    /\ iter_result = None
    /\ loop_result = None
    /\ obs = NoObs
    /\ runner = NoRun

\* create_backup(suffix), with the default suffix or a given one.
CreateBackup ==
    /\ calls < MaxCalls
    /\ calls' = calls + 1
    /\ \E suffix \in {Timestamp(clock), CustomSuffix},
       faults \in {{}, {"copy"}, {"copy_progress"}} :
       LET bk == create_backup(disk, progress, backups, suffix, faults)
       IN  /\ backups' = bk.backups
           /\ op' = [name |-> "create_backup",
                     outcome |-> IF bk.raised THEN "raised" ELSE "returned",
                     suffix |-> suffix, before |-> disk, args |-> <<>>]
           /\ UNCHANGED <<disk, temp, progress, clock, rrd, sv, loopVars,
                          runnerVars>>

\* reset(): back up, load, reset the document, save, start the progress
\* file anew.  Whatever raises ends the operation there.
Reset ==
    /\ calls < MaxCalls
    /\ calls' = calls + 1
    /\ \E faults \in ResetFaultPlans :
       LET suffix == Timestamp(clock)
           bk     == create_backup(disk, progress, backups, suffix, faults)
           loaded == Loadable(disk)
           doc    == ResetDoc(Parse(disk))
           w      == RunSave(SaveEnter(World(disk, temp, doc, IdleSave),
                                       None), faults)
           saved  == w.sv.pc = "returned"
           done   == ~bk.raised /\ loaded /\ saved /\ "progress" \notin faults
       IN  /\ backups' = bk.backups
           /\ IF bk.raised \/ ~loaded
              THEN UNCHANGED <<disk, temp, rrd, sv, progress>>
              ELSE /\ disk' = w.disk
                   /\ temp' = w.temp
                   /\ rrd' = w.rrd
                   /\ sv' = IF saved THEN IdleSave ELSE w.sv
                   /\ progress' = IF done THEN "header" ELSE progress
           /\ op' = [name |-> "reset",
                     outcome |-> IF done THEN "returned" ELSE "raised",
                     suffix |-> suffix, before |-> disk, args |-> <<>>]
           /\ UNCHANGED <<clock, loopVars,
                          runnerVars>>

\* A second passes.
Tick ==
    /\ clock < MaxClock
    /\ clock' = clock + 1
    /\ UNCHANGED <<disk, temp, progress, backups, mgrVars, loopVars,
                   runnerVars>>

NextReset == Reset \/ CreateBackup \/ Tick

SpecReset == InitReset /\ [][NextReset]_vars
(***************************************************************************)
(* SpecTarget: RRDManager.update_target_papers() and reset(), each as one  *)
(* operation, on a project whose rrd.json starts loadable, missing or      *)
(* unparsable.                                                             *)
(***************************************************************************)
\* The integers given as target: below the schema's minimum, the minimum,
\* and a value no starting document has.
TargetArgs == {0 - 1, 0, 1, 3}

\* InProgress looking at the phase only.
InProgressPhaseOnly(d) == d.phase # "DISCOVERY"

\* line 166: the guard that refuses the change.
InProgress(d) == d.phase # "DISCOVERY" \/ d.statistics.total_analyzed > 0

\* line 169: a plain attribute assignment; the model does not validate
\* assignments, so any integer is stored.
Retarget(d, n) == [d EXCEPT !.target_papers = n]

TargetDocs ==
    {RRD(ph, pool, <<>>, t, st) :
        ph \in Phases, pool \in {<<>>, <<"presented">>},
        t \in TargetValues,
        st \in {ZeroStatistics, Statistics(1, 1, 1, 0, 1)}}

InitTarget ==
    /\ disk \in {Absent, NotJson} \cup {Serialize(d) : d \in TargetDocs}
    /\ temp = Absent
    /\ progress = "absent"
    /\ backups = NoBackups
    /\ clock = 0
    /\ rrd = None
    /\ sv = IdleSave
    /\ op = NoOp
    /\ calls = 0
    /\ pc = "store"
    /\ env = [agent_available |-> TRUE, prompt_at |-> "script_dir"]
    /\ max_iterations = 0
    /\ max_consecutive_failures = 1
    /\ consecutive_failures = 0
    /\ current_iteration = 0
    /\ iteration = 0
    /\ frame = NoFrame
    /\ iter_result = None
    /\ loop_result = None
    /\ obs = NoObs
    /\ runner = NoRun

\* update_target_papers(n, force), lines 163-171: load, refuse or assign,
\* save.  load() and save() may raise.
UpdateTarget ==
    /\ calls < MaxCalls
    /\ calls' = calls + 1
    /\ \E n \in TargetArgs, force \in BOOLEAN, plan \in {{}, {"replace"}} :
       LET loaded == Parse(disk)
           w == RunSave(SaveEnter(World(disk, temp, Retarget(loaded, n),
                                        IdleSave), None), plan)
           this == [NoOp EXCEPT !.name = "update_target_papers",
                                !.before = disk, !.args = <<n, force>>]
       IN  IF ~Loadable(disk)
           THEN /\ op' = [this EXCEPT !.outcome = "raised"]
                /\ UNCHANGED <<disk, temp, rrd, sv>>
           ELSE IF ~force /\ InProgress(loaded)
           THEN /\ op' = [this EXCEPT !.outcome = "returned_false"]
                /\ rrd' = loaded
                /\ UNCHANGED <<disk, temp, sv>>
           ELSE /\ disk' = w.disk
                /\ temp' = w.temp
                /\ rrd' = w.rrd
                /\ sv' = w.sv
                /\ op' = [this EXCEPT !.outcome =
                            IF w.sv.pc = "returned" THEN "returned_true"
                            ELSE "raised"]
    /\ UNCHANGED <<progress, backups, clock, loopVars, runnerVars>>

NextTarget == UpdateTarget \/ Reset

SpecTarget == InitTarget /\ [][NextTarget]_vars

(***************************************************************************)
(* SpecModes: run() in its two modes.  env.live says that live_output is   *)
(* on and an on_output callback was given (line 200); the loop then reads  *)
(* the agent through AgentRunner.run_streaming, which sets no timeout.     *)
(***************************************************************************)
ModeDocs ==
    {RRD(ph, pool, <<>>, 1, Statistics(0, a, 0, 0, 0)) :
        ph \in {"DISCOVERY", "ANALYSIS"},
        pool \in {<<>>, <<"analyzing">>, <<"presented">>},
        a \in {0, 1}}

InitModes ==
    /\ disk \in {Serialize(d) : d \in ModeDocs}
    /\ temp = Absent
    /\ progress = "absent"
    /\ backups = NoBackups
    /\ clock = 0
    /\ rrd = None
    /\ sv = IdleSave
    /\ op = NoOp
    /\ calls = 0
    /\ pc = "idle"
    /\ env \in [agent_available : {TRUE},
                prompt_at : {"script_dir", "repo_root"},
                live : BOOLEAN]
    /\ max_iterations \in 1..MaxIterations
    /\ max_consecutive_failures \in 1..MaxFailures
    /\ consecutive_failures = 0
    /\ current_iteration = 0
    /\ iteration = 0
    /\ frame = NoFrame
    /\ iter_result = None
    /\ loop_result = None
    /\ obs = NoObs
    /\ runner = NoRun

\* What run_streaming returns when its process exits, lines 384-398: as
\* run() does, but for the launch timeout, which it does not have.
StreamResults(e) ==
    {ar \in RunnerResults(e) : ar.exit_code # 124}

\* lines 203-211: the for statement runs the generator to its end and
\* drops the value it returns; gen.send(None) on the finished generator
\* raises a StopIteration that carries no value, so e.value is None.
ReceiveFromGenerator(ar) == None

\* Blocking mode, line 214.
InvokeBlocking == ~env.live /\ Invoke

\* Live mode, lines 200-211, with a process that exits (or no process, the
\* prompt missing): every line is forwarded, then the loop takes what the
\* generator gave it and goes on at line 217.
StreamExit ==
    /\ pc = "invoke"
    /\ env.live
    /\ \E ar \in StreamResults(env) :
       \E written \in WrittenBy(ar, disk) :
         LET got == ReceiveFromGenerator(ar) IN
         /\ runner' = [pc |-> "streamed", result |-> ar, received |-> got]
         /\ IF got = None
            THEN \* line 217: None has no attribute success
                 /\ pc' = "raised"
                 /\ disk' = Serialize(written)
                 /\ obs' = [obs EXCEPT !.invocations = @ + 1,
                                       !.events = @ \o <<"invoke">>,
                                       !.agent_left = written]
                 /\ UNCHANGED <<temp, rrd, sv, frame, iteration,
                                current_iteration, iter_result, loop_result,
                                consecutive_failures>>
            ELSE HandleResult(got, written)
    /\ UNCHANGED <<progress, backups, clock, op, calls, env,
                   max_iterations, max_consecutive_failures>>

\* Live mode with a process that never exits or never closes its output:
\* the loop stays in "for line in gen" (line 204), run_streaming in "for
\* line in process.stdout" (line 380).
StreamHang ==
    /\ pc = "invoke"
    /\ env.live
    /\ env.prompt_at = "script_dir"
    /\ pc' = "streaming"
    /\ \E written \in AgentWrites(Parse(disk)) :
         /\ disk' = Serialize(written)
         /\ obs' = [obs EXCEPT !.invocations = @ + 1,
                               !.events = @ \o <<"invoke">>,
                               !.agent_left = written]
    /\ runner' = [pc |-> "streaming", result |-> None, received |-> None]
    /\ UNCHANGED <<temp, progress, backups, clock, mgrVars, env,
                   max_iterations, max_consecutive_failures,
                   consecutive_failures, current_iteration, iteration,
                   frame, iter_result, loop_result>>

NextModes == Run \/ InvokeBlocking \/ StreamExit \/ StreamHang

\* run() is a sequential program that is being executed: it takes its next
\* step whenever it has one.
SpecModes == InitModes /\ [][NextModes]_vars /\ WF_vars(NextModes)

\* SpecModes in blocking mode only.
SpecBlocking ==
    InitModes /\ ~env.live /\ [][NextModes]_vars /\ WF_vars(NextModes)

(***************************************************************************)
(* SpecClassify: classify_error and get_retry_delay applied to every       *)
(* output, an output being told apart by the substrings it contains and    *)
(* by the case of its letters.                                             *)
(***************************************************************************)
NoPolicy == [delay |-> 0 - 1, should_retry |-> FALSE]

InitClassify ==
    /\ disk = Absent
    /\ temp = Absent
    /\ progress = "absent"
    /\ backups = NoBackups
    /\ clock = 0
    /\ rrd = None
    /\ sv = IdleSave
    /\ op = NoOp
    /\ calls = 0
    /\ pc = "runner"
    /\ env = [agent_available |-> TRUE, prompt_at |-> "script_dir"]
    /\ max_iterations = 0
    /\ max_consecutive_failures = 1
    /\ consecutive_failures = 0
    /\ current_iteration = 0
    /\ iteration = 0
    /\ frame = NoFrame
    /\ iter_result = None
    /\ loop_result = None
    /\ obs = NoObs
    /\ \E words \in SUBSET Substrings, shout \in BOOLEAN :
         runner = [pc |-> "failed", output |-> Output(words, shout),
                   error_type |-> "none", policy |-> NoPolicy]

\* A failed invocation's output is classified (agent_runner.py line 225)
\* and the loop asks for the retry policy (research_loop.py line 221).
Classify ==
    /\ runner.pc = "failed"
    /\ LET kind == classify_error(runner.output) IN
       runner' = [runner EXCEPT !.pc = "classified",
                                !.error_type = kind,
                                !.policy = get_retry_delay(kind)]
    /\ UNCHANGED <<dirVars, mgrVars, loopVars>>

NextClassify == Classify

SpecClassify == InitClassify /\ [][NextClassify]_vars

(***************************************************************************)
(* SpecRunner: one AgentRunner.run() in blocking mode, for each agent      *)
(* profile and each thing the launch can do.                               *)
(***************************************************************************)
Agents == {"claude", "amp", "codex"}

ExitCodes == {0, 1, 2}

OutputSamples ==
    {Output({}, FALSE), Output({"403", "rate", "limit"}, FALSE),
     Output({"too many requests"}, TRUE), Output({"captcha"}, FALSE),
     Output({"timed out"}, TRUE), Output({"dns"}, FALSE),
     Output({"rate"}, FALSE)}

\* What subprocess.run does: the process exits with a code and an output
\* (signal: the output holds <promise>COMPLETE</promise>), the timeout
\* expires, or another exception is raised (the binary is missing, ...).
Launch(kind, code, output, signal) ==
    [kind |-> kind, code |-> code, output |-> output, signal |-> signal]

Launches ==
    {Launch("exit", c, o, s) :
        c \in ExitCodes, o \in OutputSamples, s \in BOOLEAN}
    \cup {Launch("timeout", 0, Output({}, FALSE), FALSE),
          Launch("exception", 0, Output({}, FALSE), FALSE)}

\* _run_claude, _run_amp and _run_codex from the process's exit on, lines
\* 219-232, 244-257 and 288-301.
ExitResult(launch) ==
    LET success == launch.code = 0 IN
    AgentResult(success, launch.code,
                IF success THEN "none" ELSE classify_error(launch.output),
                launch.signal)

\* RunCatch with the handler of TimeoutExpired only.
RunCatchTimeoutOnly(launch) ==
    CASE launch.kind = "exit" ->
            [raised |-> FALSE, result |-> ExitResult(launch)]
      [] launch.kind = "timeout" ->
            [raised |-> FALSE,
             result |-> AgentResult(FALSE, 124, "timeout", FALSE)]
      [] OTHER -> [raised |-> TRUE, result |-> None]

\* run()'s try statement, lines 176-199.
RunCatch(launch) ==
    CASE launch.kind = "exit" ->
            [raised |-> FALSE, result |-> ExitResult(launch)]
      [] launch.kind = "timeout" ->
            [raised |-> FALSE,
             result |-> AgentResult(FALSE, 124, "timeout", FALSE)]
      [] OTHER ->
            [raised |-> FALSE,
             result |-> AgentResult(FALSE, 1, "unknown", FALSE)]

\* CodexFinally without the unlink.
CodexFinallyKeeps(file, unlink_ok) == file

\* _run_codex's finally clause, lines 302-307: os.unlink, whose failure is
\* swallowed.
CodexFinally(file, unlink_ok) ==
    IF file = "exists" /\ unlink_ok THEN "absent" ELSE file

InitRunner ==
    /\ disk = Absent
    /\ temp = Absent
    /\ progress = "absent"
    /\ backups = NoBackups
    /\ clock = 0
    /\ rrd = None
    /\ sv = IdleSave
    /\ op = NoOp
    /\ calls = 0
    /\ pc = "runner"
    /\ env = [agent_available |-> TRUE, prompt_at |-> "script_dir"]
    /\ max_iterations = 0
    /\ max_consecutive_failures = 1
    /\ consecutive_failures = 0
    /\ current_iteration = 0
    /\ iteration = 0
    /\ frame = NoFrame
    /\ iter_result = None
    /\ loop_result = None
    /\ obs = NoObs
    /\ \E agent \in Agents, prompt_exists \in BOOLEAN,
          launch \in Launches, unlink_ok \in BOOLEAN :
         runner = [pc |-> "called", agent |-> agent,
                   prompt_exists |-> prompt_exists, launch |-> launch,
                   unlink_ok |-> unlink_ok, last_message_file |-> "none",
                   result |-> None]

\* run() up to the launch, lines 158-182 and 262-266: the missing prompt
\* is answered at once; codex gets its temp file.
RunnerLaunch ==
    /\ runner.pc = "called"
    /\ runner' =
         IF ~runner.prompt_exists
         THEN [runner EXCEPT
                 !.pc = "returned",
                 !.result = AgentResult(FALSE, 1, "missing_prompt", FALSE)]
         ELSE [runner EXCEPT
                 !.pc = "launched",
                 !.last_message_file =
                    IF runner.agent = "codex" THEN "exists" ELSE "none"]
    /\ UNCHANGED <<dirVars, mgrVars, loopVars>>

\* run() from the launch on: subprocess.run ends one way or another,
\* _run_codex's finally clause runs, run() returns or raises.
RunnerFinish ==
    /\ runner.pc = "launched"
    /\ LET caught == RunCatch(runner.launch) IN
       runner' = [runner EXCEPT
                    !.pc = IF caught.raised THEN "raised" ELSE "returned",
                    !.result = caught.result,
                    !.last_message_file =
                       CodexFinally(@, runner.unlink_ok)]
    /\ UNCHANGED <<dirVars, mgrVars, loopVars>>

NextRunner == RunnerLaunch \/ RunnerFinish

SpecRunner == InitRunner /\ [][NextRunner]_vars

(***************************************************************************)
(* SpecRuns: a ResearchLoop whose run() is called again after it returned, *)
(* in blocking mode, on the same instance and project.  runner holds the   *)
(* AgentResult of the invocation the loop handled last; obs is what the    *)
(* observer of the run() under way has seen.                               *)
(***************************************************************************)
RunsDocs ==
    {RRD(ph, pool, <<>>, 1, Statistics(0, a, 0, 0, 0)) :
        ph \in {"DISCOVERY", "ANALYSIS"},
        pool \in {<<>>, <<"analyzing">>},
        a \in {0, 1}}

InitRuns ==
    /\ disk \in {Serialize(d) : d \in RunsDocs}
    /\ temp = Absent
    /\ progress = "absent"
    /\ backups = NoBackups
    /\ clock = 0
    /\ rrd = None
    /\ sv = IdleSave
    /\ op = NoOp
    /\ calls = 0
    /\ pc = "idle"
    /\ env \in [agent_available : {TRUE},
                prompt_at : {"script_dir", "repo_root"}]
    /\ max_iterations \in 1..MaxIterations
    /\ max_consecutive_failures \in 1..MaxFailures
    /\ consecutive_failures = 0
    /\ current_iteration = 0
    /\ iteration = 0
    /\ frame = NoFrame
    /\ iter_result = None
    /\ loop_result = None
    /\ obs = NoObs
    /\ runner = NoRun

\* Invoke with the runner's results drawn from results, the one handled
\* being kept in runner.
InvokeWith(results) ==
    /\ pc = "invoke"
    /\ \E ar \in results :
       \E written \in WrittenBy(ar, disk) :
         /\ HandleResult(ar, written)
         /\ runner' = [pc |-> "returned", result |-> ar]
    /\ UNCHANGED <<progress, backups, clock, op, calls, env,
                   max_iterations, max_consecutive_failures>>

InvokeRecorded == InvokeWith(RunnerResults(env))

\* The calls of run() that follow the first one.
LaterRuns == {1}

\* run() is called on the instance whose run() has returned.
RunAgain ==
    /\ pc = "done"
    /\ calls + 1 \in LaterRuns
    /\ calls' = calls + 1
    /\ RunCall(NoObs)
    /\ iter_result' = None
    /\ runner' = NoRun

NextRuns == Run \/ InvokeRecorded \/ RunAgain

SpecRuns == InitRuns /\ [][NextRuns]_vars

(***************************************************************************)
(* SpecStub: run() with AgentRunner.run replaced by a double, as the       *)
(* loop's tests do (patch.object(AgentRunner, "run")): besides what the    *)
(* real runner returns, the double returns failed results that carry an    *)
(* output and no error_type (AgentResult.error_type defaults to None).     *)
(***************************************************************************)
StubOutputs ==
    {Output({}, FALSE), Output({"403", "forbidden"}, FALSE),
     Output({"captcha"}, FALSE), Output({"429"}, FALSE)}

\* AgentResult(output=..., exit_code=1, success=False)
UnclassifiedFailure(output) ==
    [success |-> FALSE, exit_code |-> 1, error_type |-> "none",
     is_complete |-> FALSE, output |-> output]

StubResults(e) ==
    RunnerResults(e) \cup {UnclassifiedFailure(out) : out \in StubOutputs}

InitStub ==
    /\ InitRuns
    /\ env.prompt_at = "script_dir"

InvokeStub == InvokeWith(StubResults(env))

NextStub == Run \/ InvokeStub

SpecStub == InitStub /\ [][NextStub]_vars

(***************************************************************************)
(* Claims about ResearchLoop.run(), checked under SpecLoop.                *)
(***************************************************************************)

C2_CorrectedBeforeLaunch ==
    pc = "invoke"
    => /\ Loadable(disk)
       /\ ~NeedsCorrection(Parse(disk))
       /\ Parse(disk).phase = frame.phase
       /\ obs.start_phase = frame.phase

C2_Witness ==
    /\ pc = "invoke"
    /\ iteration = 2
    /\ obs.saves = 1
    /\ obs.invocations = 1
    /\ Parse(disk).phase = "DISCOVERY"
    /\ Len(Parse(disk).papers_pool) < Parse(disk).target_papers

\* C3: run() returns completed = true, or an IterationResult has
\* is_complete = true, only if the last invocation succeeded and the
\* document reloaded after it has no pending or analyzing item and
\* total_analyzed > 0.
C3_CompletionNeedsNoOpenItems ==
    LET NothingOpen ==
            /\ pc = "done"
            /\ consecutive_failures = 0
            /\ iter_result # None
            /\ iter_result.success
            /\ rrd = Parse(disk)
            /\ pending_count(rrd) = 0
            /\ rrd.statistics.total_analyzed > 0
    IN  /\ (loop_result # None /\ loop_result.completed) => NothingOpen
        /\ (iter_result # None /\ iter_result.is_complete) => NothingOpen

C3_Witness ==
    /\ pc = "done"
    /\ loop_result.completed
    /\ iter_result.agent_result.is_complete
    /\ Len(rrd.papers_pool) > 0

C6_ValidationFailure ==
    [][(pc = "idle" /\ LoopValidate(disk, env) # <<>>)
       => /\ pc' = "done"
          /\ loop_result'.completed = FALSE
          /\ loop_result'.iterations_run = 0
          /\ loop_result'.error_message =
                Message("validation", 0, LoopValidate(disk, env))
          /\ obs' = NoObs
          /\ UNCHANGED <<dirVars, mgrVars, iter_result>>]_vars

C6_Witness ==
    /\ pc = "done"
    /\ obs = NoObs
    /\ loop_result.error_message.kind = "validation"
    /\ Len(loop_result.error_message.errors) = 3

(***************************************************************************)
(* Claims about RRDManager.save(), checked under SpecSave.                 *)
(***************************************************************************)

\* C7: from the call of save() on, at every step, after its return or
\* raise and after a crash, rrd.json is the complete previous file or the
\* complete new document, never a partial one; when save() has raised it
\* is the previous file, and when it has returned it is the new document.
C7_AtomicSave ==
    sv.pc # "idle"
    => /\ disk = sv.prev \/ (sv.data # Absent /\ disk = sv.data)
       /\ disk.kind \notin {"empty", "partial"}
       /\ sv.pc \in {"raised", "cleanup"} => disk = sv.prev
       /\ sv.pc = "returned" => disk = Serialize(rrd)

C7_Witness ==
    /\ op.outcome = "crashed"
    /\ sv.pc = "replace"
    /\ temp = sv.data
    /\ disk = sv.prev
    /\ disk # sv.data
    /\ disk.kind = "json"

C9_NoTempAfterFailure ==
    ( /\ sv.pc = "raised"
      /\ sv.failed_at \in {"write", "close", "replace"}
      /\ ~sv.unlink_failed )
    => temp = Absent

(***************************************************************************)
(* Claims about RRDManager.reset(), checked under SpecReset.               *)
(***************************************************************************)

\* C10: when reset() has returned, rrd.json is a loadable document with
\* phase DISCOVERY, no papers, no insights and the five counters at zero,
\* and the backup reset() made holds what rrd.json held when reset() was
\* called.
C10_ResetResult ==
    (op.name = "reset" /\ op.outcome = "returned")
    => /\ Loadable(op.before)
       /\ Loadable(disk)
       /\ Parse(disk).phase = "DISCOVERY"
       /\ Parse(disk).papers_pool = <<>>
       /\ Parse(disk).insights = <<>>
       /\ Parse(disk).statistics = ZeroStatistics
       /\ op.suffix \in DOMAIN backups
       /\ backups[op.suffix].rrd = op.before

C10_Witness ==
    /\ op.name = "reset"
    /\ op.outcome = "returned"
    /\ Parse(op.before).phase = "IDEATION"
    /\ Parse(op.before).papers_pool = <<"pending", "presented">>
    /\ Parse(op.before).insights # <<>>
    /\ Parse(op.before).statistics = Statistics(1, 1, 0, 1, 0)
    /\ backups[op.suffix].rrd = op.before
    /\ Parse(disk).statistics = ZeroStatistics

(***************************************************************************)
(* Claims about RRDManager.update_target_papers(), checked under           *)
(* SpecTarget.                                                             *)
(***************************************************************************)

\* C11: update_target_papers(n, force) on a loadable rrd.json returns
\* false, with rrd.json untouched, exactly when force is off and the
\* document is past DISCOVERY or has analyzed papers; otherwise it returns
\* true with rrd.json the old document but for target_papers = n; it
\* raises only when a step of its save() fails.
C11_UpdateTargetFrame ==
    (op.name = "update_target_papers" /\ Loadable(op.before))
    => LET old == Parse(op.before)
           n == op.args[1]
           force == op.args[2]
           refused == ~force /\ (old.phase # "DISCOVERY"
                                 \/ old.statistics.total_analyzed > 0)
       IN  /\ op.outcome = "returned_false" <=> refused
           /\ op.outcome = "returned_false" => disk = op.before
           /\ op.outcome = "returned_true"
              => /\ disk.kind = "json"
                 /\ Parse(disk).target_papers = n
                 /\ Parse(disk) = [old EXCEPT !.target_papers = n]
           /\ op.outcome = "raised"
              => sv.pc = "raised" /\ disk = op.before

C11_Witness ==
    /\ op.name = "update_target_papers"
    /\ op.outcome = "returned_true"
    /\ op.args = <<3, TRUE>>
    /\ Parse(op.before).phase = "ANALYSIS"
    /\ Parse(op.before).papers_pool = <<"presented">>
    /\ Parse(disk).target_papers = 3

\* C12: whenever rrd.json is a JSON document with a requirements section,
\* its target_papers is at least 1.
C12_TargetAtLeastOne ==
    (disk.kind = "json" /\ disk.requirements = "present")
    => Parse(disk).target_papers >= 1

\* C17: after update_target_papers(n, force=True) has changed the target
\* of a document past DISCOVERY or with analyzed papers, some backup file
\* holds what rrd.json held before the call.
C17_ForcedChangeBacksUp ==
    ( /\ op.name = "update_target_papers"
      /\ op.outcome = "returned_true"
      /\ op.args[2]
      /\ InProgress(Parse(op.before)) )
    => \E s \in DOMAIN backups : backups[s].rrd = op.before

(***************************************************************************)
(* Claims about the two modes of run(), checked under SpecModes.           *)
(***************************************************************************)

\* C13: in live mode, once the agent's output has been forwarded, the
\* AgentResult the loop goes on with is the one run_streaming returned.
C13_LiveReceivesResult ==
    (env.live /\ runner.pc = "streamed") => runner.received = runner.result

\* C15: run() eventually returns (or raises), whatever the agent does.
C15_RunEnds == <>(pc \in {"done", "raised"})

(***************************************************************************)
(* Claims about classify_error and get_retry_delay, checked under          *)
(* SpecClassify.                                                           *)
(***************************************************************************)

\* C18: the kind classify_error gives is the kind of the first rule, in
\* the order Forbidden, RateLimit, BotChallenge, Timeout, Network, one of
\* whose alternatives has all its substrings in the output, case ignored;
\* it is Unknown when no rule has one.
C18_FirstMatchWins ==
    runner.pc = "classified"
    => LET rules == <<
               <<"forbidden", {{"403"}, {"forbidden"}}>>,
               <<"rate_limit", {{"429"}, {"too many requests"},
                                {"rate", "limit"}}>>,
               <<"bot_challenge", {{"bot"}, {"challenge"}, {"captcha"},
                                   {"blocked"}}>>,
               <<"timeout", {{"timeout"}, {"timed out"}}>>,
               <<"network", {{"network"}, {"connection"}, {"dns"}}>> >>
           matches(k) ==
               \E alt \in rules[k][2] : alt \subseteq runner.output.words
           hits == {k \in 1..Len(rules) : matches(k)}
       IN  IF hits = {} THEN runner.error_type = "unknown"
           ELSE \E k \in hits :
                   /\ \A j \in hits : k <= j
                   /\ runner.error_type = rules[k][1]

C18_Witness ==
    /\ runner.pc = "classified"
    /\ runner.output.shout
    /\ runner.output.words = {"rate", "limit", "captcha", "dns"}
    /\ runner.error_type = "rate_limit"

\* C19: the retry policy is the table's: Forbidden (0, no retry),
\* BotChallenge (0, no retry), RateLimit (30, retry), Timeout (2, retry),
\* Network (2, retry), Unknown (5, retry).
C19_RetryTable ==
    runner.pc = "classified"
    => LET table == [k \in ErrorTypes |->
                       CASE k = "forbidden" -> <<0, FALSE>>
                         [] k = "bot_challenge" -> <<0, FALSE>>
                         [] k = "rate_limit" -> <<30, TRUE>>
                         [] k = "timeout" -> <<2, TRUE>>
                         [] k = "network" -> <<2, TRUE>>
                         [] k = "unknown" -> <<5, TRUE>>]
       IN  /\ runner.error_type \in ErrorTypes
           /\ runner.policy.delay = table[runner.error_type][1]
           /\ runner.policy.should_retry = table[runner.error_type][2]
           /\ ~runner.policy.should_retry
              <=> runner.error_type \in {"forbidden", "bot_challenge"}

C19_Witness ==
    /\ runner.pc = "classified"
    /\ runner.error_type = "bot_challenge"
    /\ runner.policy = [delay |-> 0, should_retry |-> FALSE]

(***************************************************************************)
(* Claims about AgentRunner.run(), checked under SpecRunner.               *)
(***************************************************************************)

\* C14: run() never raises once the agent is launched; a launch timeout
\* gives success = false, kind Timeout, exit code 124; another launch
\* exception gives success = false, kind Unknown; a process that exits
\* gives success = (exit code = 0), with a classified kind exactly when
\* success is false.
C14_RunNeverRaises ==
    /\ runner.pc # "raised"
    /\ (runner.pc = "returned" /\ runner.prompt_exists)
       => LET res == runner.result
              launch == runner.launch
          IN  CASE launch.kind = "timeout" ->
                      /\ ~res.success
                      /\ res.error_type = "timeout"
                      /\ res.exit_code = 124
                [] launch.kind = "exception" ->
                      /\ ~res.success
                      /\ res.error_type = "unknown"
                [] OTHER ->
                      /\ res.success <=> launch.code = 0
                      /\ res.exit_code = launch.code
                      /\ res.error_type \in ErrorTypes <=> ~res.success

C14_Witness ==
    /\ runner.pc = "returned"
    /\ runner.launch.kind = "exception"
    /\ runner.agent = "amp"
    /\ runner.result.error_type = "unknown"

C16_InvalidIsPreflight ==
    (~Loadable(disk) /\ pc # "idle" /\ max_iterations >= 1)
    => /\ pc = "done"
       /\ loop_result # None
       /\ ~loop_result.completed
       /\ loop_result.iterations_run = 0
       /\ loop_result.error_message # NoMessage
       /\ obs.invocations = 0

(***************************************************************************)
(* Claims about the loop's handling of failures, sleeps and callbacks.     *)
(***************************************************************************)
\* Event e is among those of the iteration under way.
Happened(e) == \E k \in 1..Len(obs.events) : obs.events[k] = e

\* The failed result the loop has just handled.
LastFailed ==
    /\ runner.pc = "returned"
    /\ ~runner.result.success
    /\ LoopErrorType(runner.result) \in ErrorTypes

C22_NoSleepBeforeReturn ==
    (/\ pc = "done"
     /\ iter_result # None
     /\ ~iter_result.success
     /\ ~iter_result.should_continue
     /\ Happened("invoke"))
       => ~Happened("sleep")

LaunchOrders == {<<"start">>, <<"save", "start">>}

IterationOrders ==
    {l \o <<"invoke", "end">> \o s :
        l \in LaunchOrders, s \in {<<>>, <<"sleep">>}}

C25_SaveOnlyForCorrection ==
    /\ (/\ pc = "invoke"
        /\ \/ frame.loaded.phase \in {"DISCOVERY", "IDEATION", "COMPLETE"}
           \/ /\ frame.loaded.phase = "ANALYSIS"
              /\ Len(frame.loaded.papers_pool) >= frame.loaded.target_papers)
          => /\ ~Happened("save")
             /\ disk = Serialize(frame.loaded)
             /\ obs.start_phase = frame.loaded.phase
             /\ frame.phase = frame.loaded.phase
    /\ (pc \in {"done", "raised"} /\ Happened("invoke"))
          => disk = Serialize(obs.agent_left)

C25_Witness ==
    /\ pc = "invoke"
    /\ iteration = MaxIterations
    /\ frame.loaded.phase = "ANALYSIS"
    /\ Len(frame.loaded.papers_pool) = frame.loaded.target_papers
    /\ obs.start_phase = "ANALYSIS"
    /\ obs.saves = 0

C27_EachRunCountsFromZero ==
    (/\ pc = "done"
     /\ loop_result.error_message.kind = "too_many_failures")
       => /\ loop_result.error_message.n <= max_consecutive_failures
          /\ obs.streak >= max_consecutive_failures

\* C28: every failed AgentResult the loop is given inside run() carries one
\* of the six kinds, and the failure branch ends in an IterationResult, not
\* in an exception raised right after the invocation.
C28_FailuresAreClassified ==
    (runner.pc = "returned" /\ ~runner.result.success)
       => /\ runner.result.error_type \in ErrorTypes
          /\ pc = "raised" => ~Happened("invoke")

\* C29: at every launch that follows an invocation, the document the loop
\* works on was loaded after that invocation: it is what the agent left,
\* and a save the loop made in between wrote exactly that document with
\* its phase corrected, so nothing of the agent's changes is lost.
C29_SavesWhatAgentLeft ==
    (pc = "invoke" /\ obs.invocations > 0)
       => /\ frame.loaded = obs.agent_left
          /\ Parse(disk) =
                IF Happened("save")
                THEN [obs.agent_left EXCEPT !.phase = "DISCOVERY"]
                ELSE obs.agent_left
          /\ rrd = Parse(disk)

C29_Witness ==
    /\ pc = "invoke"
    /\ obs.invocations > 0
    /\ Happened("save")
    /\ obs.agent_left.phase = "ANALYSIS"
    /\ consecutive_failures > 0

(***************************************************************************)
(* Claims about backups.                                                   *)
(***************************************************************************)
\* C30: no reset() or create_backup() changes a backup file an earlier
\* call made under a default (timestamp) suffix, so every pre-reset
\* content stays in the backup that was made of it, also when two calls
\* fall into the same clock second.
C30_BackupsAreKept ==
    [][\A s \in DOMAIN backups :
          s[1] = "timestamp" =>
             /\ s \in DOMAIN backups'
             /\ backups'[s].rrd = backups[s].rrd]_vars

====
